---- MODULE Spec2Model ----
(***************************************************************************)
(* State-machine model of summarize.py (gistify-cli).                      *)
(*                                                                         *)
(* One invocation of main() is a process walking through                   *)
(*   check_rate_limit -> _is_local_file -> extraction -> summarize_content *)
(*   -> record_request -> output file.                                     *)
(* Time is counted in whole seconds.  Strings that the program inspects    *)
(* (the command-line input, URLs) are sequences of tokens.                 *)
(***************************************************************************)
EXTENDS Integers, Sequences, FiniteSets, TLC

VARIABLES
    clock,        \* time.time(), in seconds
    rateFile,     \* content of RATE_LIMIT_FILE
    rateFile0,    \* history variable: content of RATE_LIMIT_FILE at start
    proxyFile,    \* content of ~/.scholar-proxies.json
    proxyForce,   \* _PROXY_FORCE
    proxyResult,  \* what the last direct call of _get_proxy_url returned
    proxyCalls,   \* number of direct calls of _get_proxy_url made so far
    input,        \* args.input of each process, with what the disk holds
    pc,           \* position of each process in main()
    status,       \* how each process ended ("running" until then)
    now,          \* check_rate_limit: now
    timestamps,   \* check_rate_limit: timestamps (after pruning)
    wakeAt,       \* check_rate_limit: end of time.sleep(wait)
    blockedFor,   \* seconds check_rate_limit spent in time.sleep
    url,          \* the URL handed to the extraction strategy
    strategy,     \* extraction strategy entered by the process
    browser,      \* Chromium instance of the process
    tmpFile,      \* whether the NamedTemporaryFile of the process is on disk
    recRaw,       \* record_request: timestamps as read from the file
    recNow,       \* record_request: now
    recTimestamps,\* record_request: timestamps after prune and append
    log           \* externally visible steps of each process, in order

vars == <<clock, rateFile, rateFile0, proxyFile, proxyForce, proxyResult,
          proxyCalls, input, pc, status, now, timestamps, wakeAt, blockedFor,
          url, strategy, browser, tmpFile, recRaw, recNow, recTimestamps, log>>

proxyVars == <<proxyFile, proxyForce, proxyResult, proxyCalls>>
limiterVars == <<now, timestamps, wakeAt, blockedFor>>
recordVars == <<recRaw, recNow, recTimestamps>>
fetchVars == <<url, strategy, browser, tmpFile>>

----------------------------------------------------------------------------
(* Program constants                                                       *)

MIN_INTERVAL_SECONDS == 5
MAX_REQUESTS_PER_HOUR == 10
WINDOW == 3600

(* Bounds of the model                                                     *)

MaxTicks == 6      \* seconds the clock may advance during one behaviour
MaxOld == 1        \* entries near the edge of the window in an initial history
MaxRecent == 11    \* recent entries in an initial history
MaxCalls == 3      \* direct calls of _get_proxy_url

Procs == {1, 2}
Now0 == WINDOW + 10
OldAges == {WINDOW - 1, WINDOW, WINDOW + 1}
RecentAges == {0, 4, 5}

----------------------------------------------------------------------------
(* Rate limiting: pure parts of check_rate_limit and record_request        *)

Rep(x, n) == [i \in 1..n |-> x]

SeqMax(s) == CHOOSE m \in {s[i] : i \in 1..Len(s)} :
                 \A i \in 1..Len(s) : s[i] <= m

SeqMin(s) == CHOOSE m \in {s[i] : i \in 1..Len(s)} :
                 \A i \in 1..Len(s) : m <= s[i]

\* json.loads(RATE_LIMIT_FILE.read_text()) guarded by exists() and the except
\* clause: a missing file or undecodable JSON gives [].  "badShape" is content
\* that loads (or fails to decode as text) without JSONDecodeError/OSError
\* but is no list of numbers; it is reported as "raise".
LoadHistory(file) ==
    CASE file.kind = "missing"  -> [raise |-> FALSE, ts |-> <<>>]
      [] file.kind = "badJson"  -> [raise |-> FALSE, ts |-> <<>>]
      [] file.kind = "badShape" -> [raise |-> TRUE,  ts |-> <<>>]
      [] OTHER                  -> [raise |-> FALSE, ts |-> file.ts]

PruneKeepBoundary(ts, t) ==
    LET Young(x) == t - x <= WINDOW IN SelectSeq(ts, Young)

\* [ts for ts in timestamps if now - ts < window]
Prune(ts, t) ==
    LET Young(x) == t - x < WINDOW IN SelectSeq(ts, Young)

SpacingWaitOldest(ts, t) ==
    IF ts # <<>> /\ t - SeqMin(ts) < MIN_INTERVAL_SECONDS
    THEN MIN_INTERVAL_SECONDS - (t - SeqMin(ts))
    ELSE 0

\* the argument of time.sleep, 0 when the code does not sleep
SpacingWait(ts, t) ==
    IF ts # <<>> /\ t - SeqMax(ts) < MIN_INTERVAL_SECONDS
    THEN MIN_INTERVAL_SECONDS - (t - SeqMax(ts))
    ELSE 0

QuotaReachedStrict(ts) == Len(ts) > MAX_REQUESTS_PER_HOUR

\* len(timestamps) >= MAX_REQUESTS_PER_HOUR
QuotaReached(ts) == Len(ts) >= MAX_REQUESTS_PER_HOUR

RecordedEntriesUnpruned(ts, t) == Append(ts, t)

\* record_request, lines 87-88: prune, then append now
RecordedEntries(ts, t) == Append(Prune(ts, t), t)

WrittenHistoryMerged(current, computed, t) ==
    [kind |-> "list", ts |-> RecordedEntries(LoadHistory(current).ts, t)]

\* RATE_LIMIT_FILE.write_text(json.dumps(timestamps)): the file becomes the
\* list computed from the earlier read, whatever it holds by now
WrittenHistory(current, computed, t) == [kind |-> "list", ts |-> computed]

ListFile(ts) == [kind |-> "list", ts |-> ts]

Histories ==
    {ListFile(Rep(Now0 - ao, a) \o Rep(Now0 - ar, b)) :
        <<ao, a, ar, b>> \in OldAges \X (0..MaxOld) \X RecentAges \X (0..MaxRecent)}
    \cup {[kind |-> k, ts |-> <<>>] : k \in {"missing", "badJson", "badShape"}}

----------------------------------------------------------------------------
(* Proxy rotation                                                          *)

ProxyUrls == {"proxy-a", "proxy-b"}

NoConfig(k) == [kind |-> k, enabled |-> "absent", hasProxies |-> FALSE, proxies |-> {}]

DefaultConfig ==
    [kind |-> "object", enabled |-> "false", hasProxies |-> TRUE, proxies |-> {}]

\* What ~/.scholar-proxies.json may hold: nothing ("missing"), text that is
\* no JSON ("badJson"), bytes that are no text ("badBytes"), JSON that is no
\* object ("notObject"), or an object with or without its two keys.
Configs ==
    {NoConfig(k) : k \in {"missing", "badJson", "badBytes", "notObject"}}
    \cup {[kind |-> "object", enabled |-> e, hasProxies |-> TRUE, proxies |-> ps] :
            <<e, ps>> \in {"absent", "true", "false"} \X SUBSET ProxyUrls}
    \cup {[kind |-> "object", enabled |-> e, hasProxies |-> FALSE, proxies |-> {}] :
            e \in {"absent", "true", "false"}}

Overrides == {"useConfig", "forceOn", "forceOff"}

\* _load_proxy_config: FileNotFoundError, JSONDecodeError and OSError give the
\* default; a UnicodeDecodeError of read_text is none of them and propagates;
\* any JSON value that loads is returned as it is.
LoadProxyConfig(file) ==
    CASE file.kind \in {"missing", "badJson"} -> [raise |-> FALSE, config |-> DefaultConfig]
      [] file.kind = "badBytes"               -> [raise |-> TRUE,  config |-> file]
      [] OTHER                                -> [raise |-> FALSE, config |-> file]

\* _get_proxy_url: the set of results one call can produce ("raise" for an
\* exception leaving the call, "none" for None).  config.get is reached only
\* where the code evaluates it: for "enabled" when _PROXY_FORCE is None, for
\* "proxies" when enabled is true.
GetProxyUrl(file, force) ==
    LET loaded == LoadProxyConfig(file)
        config == loaded.config
    IN  IF loaded.raise THEN {"raise"}
        ELSE IF force = "useConfig" /\ config.kind = "notObject" THEN {"raise"}
        ELSE IF force = "forceOff" THEN {"none"}
        ELSE IF force = "useConfig" /\ config.enabled # "true" THEN {"none"}
        ELSE IF config.kind = "notObject" THEN {"raise"}
        ELSE IF config.proxies = {} THEN {"none"}
        ELSE config.proxies

----------------------------------------------------------------------------
(* Input classification and URL rewriting                                  *)

Schemes == {"http://", "https://"}

\* input_str.startswith(("http://", "https://"))
HasScheme(s) == Len(s) >= 1 /\ s[1] \in Schemes

Rest(n, s) == SubSeq(s, n + 1, Len(s))

\* group(1) of  (.+?)(?:\?.*)?$  on rest: the shortest non-empty prefix that
\* is followed by the end of the string or by a "?"
LazyGroup(rest) ==
    LET ends == {k \in 1..Len(rest) : k = Len(rest) \/ rest[k + 1] = "?"}
        k == CHOOSE k1 \in ends : \A k2 \in ends : k1 <= k2
    IN  SubSeq(rest, 1, k)

\* re.match(r"https?://arxiv\.org/<view>/(.+?)(?:\?.*)?$", url)
MatchArxiv(view, u) ==
    /\ Len(u) >= 4
    /\ u[1] \in Schemes
    /\ u[2] = "arxiv.org"
    /\ u[3] = view

RewriteToPdfUrlAbsOnly(u) ==
    IF MatchArxiv("/abs/", u)
    THEN <<"https://", "arxiv.org", "/pdf/">> \o LazyGroup(Rest(3, u))
    ELSE <<>>

\* _rewrite_to_pdf_url; <<>> stands for None
RewriteToPdfUrl(u) ==
    IF MatchArxiv("/abs/", u)
    THEN <<"https://", "arxiv.org", "/pdf/">> \o LazyGroup(Rest(3, u))
    ELSE IF MatchArxiv("/html/", u)
    THEN <<"https://", "arxiv.org", "/pdf/">> \o LazyGroup(Rest(3, u))
    ELSE <<>>

\* _is_local_file: the scheme test returns before Path(...).exists()
IsLocalFile(inp) ==
    IF HasScheme(inp.str)
    THEN [probed |-> FALSE, local |-> FALSE]
    ELSE [probed |-> TRUE, local |-> inp.onDisk # "absent"]

\* args.input together with what the filesystem holds under that name:
\* "absent", "small" (at most 50 MiB) or "big" (more than 50 MiB)
Inputs ==
    { [str |-> <<"paper.pdf">>, onDisk |-> "small"],
      [str |-> <<"paper.pdf">>, onDisk |-> "big"],
      [str |-> <<"missing.pdf">>, onDisk |-> "absent"],
      [str |-> <<"https://", "arxiv.org", "/abs/", "2301.00001">>, onDisk |-> "absent"],
      [str |-> <<"http://", "arxiv.org", "/html/", "2301.00001", "?", "v=1">>, onDisk |-> "absent"],
      [str |-> <<"https://", "arxiv.org", "/pdf/", "2301.00001">>, onDisk |-> "absent"],
      [str |-> <<"https://", "arxiv.org", "/abs/">>, onDisk |-> "absent"],
      [str |-> <<"https://", "example.com", "/abs/", "2301.00001">>, onDisk |-> "small"] }

NoInput == [str |-> <<>>, onDisk |-> "absent"]

\* leaving the  with sync_playwright() as p:  block stops Playwright, which
\* shuts down every browser it launched
PlaywrightExitLeaveOpen(b) == b

PlaywrightExit(b) == IF b = "open" THEN "closed" ELSE b

\* page.goto(url): a string without a scheme is no URL the browser can
\* navigate to, so the call raises; otherwise it may succeed, time out or raise
GotoOutcomes(u) == IF HasScheme(u) THEN {"ok", "timeout", "raise"} ELSE {"raise"}

----------------------------------------------------------------------------
(* Initial states                                                          *)

InitWith(files, inputs1, inputs2, configs, overrides, pc0) ==
    /\ clock = Now0
    /\ rateFile \in files
    /\ rateFile0 = rateFile
    /\ proxyFile \in configs
    /\ proxyForce \in overrides
    /\ proxyResult = "notCalled"
    /\ proxyCalls = 0
    /\ \E i1 \in inputs1, i2 \in inputs2 : input = <<i1, i2>>
    /\ pc = pc0
    /\ status = [p \in Procs |-> "running"]
    /\ now = [p \in Procs |-> 0]
    /\ timestamps = [p \in Procs |-> <<>>]
    /\ wakeAt = [p \in Procs |-> 0]
    /\ blockedFor = [p \in Procs |-> 0]
    /\ url = [p \in Procs |-> <<>>]
    /\ strategy = [p \in Procs |-> "none"]
    /\ browser = [p \in Procs |-> "none"]
    /\ tmpFile = [p \in Procs |-> FALSE]
    /\ recRaw = [p \in Procs |-> <<>>]
    /\ recNow = [p \in Procs |-> 0]
    /\ recTimestamps = [p \in Procs |-> <<>>]
    /\ log = [p \in Procs |-> <<>>]

\* configurations one invocation of main() is started with: none, one that
\* is no JSON object, and one that enables two proxies
ConfigsMain ==
    { NoConfig("missing"), NoConfig("notObject"),
      [kind |-> "object", enabled |-> "true", hasProxies |-> TRUE, proxies |-> ProxyUrls] }

\* one invocation of main()
Init ==
    InitWith(Histories, Inputs, {NoInput}, ConfigsMain, {"useConfig"},
             <<"start", "idle">>)

----------------------------------------------------------------------------
(* Steps of main()                                                         *)

Exit(p, cause) ==
    /\ pc' = [pc EXCEPT ![p] = "exit"]
    /\ status' = [status EXCEPT ![p] = cause]

Goto(p, label) ==
    /\ pc' = [pc EXCEPT ![p] = label]
    /\ UNCHANGED status

Logged(p, event) == log' = [log EXCEPT ![p] = Append(@, event)]

\* Time passes.  A second that passes commutes with every step that does not
\* read the clock, so it is taken only when some process is about to read it
\* (time.time() in check_rate_limit and record_request, time.sleep).
Tick ==
    /\ clock < Now0 + MaxTicks
    /\ \E p \in Procs : pc[p] \in {"start", "sleep", "record"}
    /\ clock' = clock + 1
    /\ UNCHANGED <<rateFile, rateFile0, proxyVars, input, pc, status, limiterVars,
                   fetchVars, recordVars, log>>

\* check_rate_limit, lines 42-61: read the clock and the file, prune, and
\* decide whether to sleep
CheckRateLimitRead(p) ==
    /\ pc[p] = "start"
    /\ LET loaded == LoadHistory(rateFile)
           pruned == Prune(loaded.ts, clock)
           wait == SpacingWait(pruned, clock)
       IN  /\ now' = [now EXCEPT ![p] = clock]
           /\ IF loaded.raise
              THEN /\ Exit(p, "Exception")
                   /\ UNCHANGED <<timestamps, wakeAt>>
              ELSE /\ timestamps' = [timestamps EXCEPT ![p] = pruned]
                   /\ IF wait > 0
                      THEN /\ wakeAt' = [wakeAt EXCEPT ![p] = clock + wait]
                           /\ Goto(p, "sleep")
                      ELSE /\ UNCHANGED wakeAt
                           /\ Goto(p, "quota")
    /\ UNCHANGED <<clock, rateFile, rateFile0, proxyVars, input, blockedFor,
                   fetchVars, recordVars, log>>

\* check_rate_limit, line 61: time.sleep(wait) returns once wait seconds passed
CheckRateLimitSleep(p) ==
    /\ pc[p] = "sleep"
    /\ clock >= wakeAt[p]
    /\ blockedFor' = [blockedFor EXCEPT ![p] = clock - now[p]]
    /\ Logged(p, "sleep")
    /\ Goto(p, "quota")
    /\ UNCHANGED <<clock, rateFile, rateFile0, proxyVars, input, now, timestamps,
                   wakeAt, fetchVars, recordVars>>

\* check_rate_limit, lines 63-72
CheckRateLimitQuota(p) ==
    /\ pc[p] = "quota"
    /\ IF QuotaReached(timestamps[p])
       THEN Exit(p, "RateLimitExceeded")
       ELSE Goto(p, "classify")
    /\ UNCHANGED <<clock, rateFile, rateFile0, proxyVars, input, limiterVars,
                   fetchVars, recordVars, log>>

\* main, line 401: if _is_local_file(args.input)
Classify(p) ==
    /\ pc[p] = "classify"
    /\ LET r == IsLocalFile(input[p])
       IN  /\ log' = [log EXCEPT ![p] = IF r.probed THEN Append(@, "fs.exists") ELSE @]
           /\ Goto(p, IF r.local THEN "pdf_path" ELSE "from_url")
    /\ UNCHANGED <<clock, rateFile, rateFile0, proxyVars, input, limiterVars,
                   fetchVars, recordVars>>

\* _extract_text_from_pdf
ExtractTextFromPdf(p) ==
    /\ pc[p] = "pdf_path"
    /\ strategy' = [strategy EXCEPT ![p] = "fromPath"]
    /\ IF input[p].onDisk = "absent"
       THEN Exit(p, "FileNotFound") /\ UNCHANGED log
       ELSE IF input[p].onDisk = "big"
       THEN Exit(p, "FileTooLarge") /\ UNCHANGED log
       ELSE /\ Logged(p, "pdf.extract")
            /\ \E outcome \in {"ok", "raise"} :
                 IF outcome = "ok" THEN Goto(p, "summarize") ELSE Exit(p, "Exception")
    /\ UNCHANGED <<clock, rateFile, rateFile0, proxyVars, input, limiterVars,
                   url, browser, tmpFile, recordVars>>

\* _extract_text_from_url, lines 229-231: rewrite, then choose the strategy
ExtractTextFromUrl(p) ==
    /\ pc[p] = "from_url"
    /\ LET pdf_url == RewriteToPdfUrl(input[p].str)
       IN  IF pdf_url # <<>>
           THEN /\ url' = [url EXCEPT ![p] = pdf_url]
                /\ strategy' = [strategy EXCEPT ![p] = "fromUrl"]
                /\ Goto(p, "download")
           ELSE /\ url' = [url EXCEPT ![p] = input[p].str]
                /\ strategy' = [strategy EXCEPT ![p] = "browser"]
                /\ Goto(p, "launch")
    /\ UNCHANGED <<clock, rateFile, rateFile0, proxyVars, input, limiterVars,
                   browser, tmpFile, recordVars, log>>

\* _download_pdf_text, lines 208-215: GET through the proxy, write the body
\* to a temporary file
DownloadPdf(p) ==
    /\ pc[p] = "download"
    /\ \E proxy \in GetProxyUrl(proxyFile, proxyForce),
          outcome \in {"ok", "httpError", "raise"} :
         IF proxy = "raise"
         THEN Exit(p, "Exception") /\ UNCHANGED <<log, tmpFile>>
         ELSE /\ Logged(p, "http.get")
              /\ CASE outcome = "ok" ->
                        /\ tmpFile' = [tmpFile EXCEPT ![p] = TRUE]
                        /\ Goto(p, "tmp_extract")
                   [] outcome = "httpError" ->
                        Exit(p, "DownloadFailed") /\ UNCHANGED tmpFile
                   [] OTHER ->
                        Exit(p, "Exception") /\ UNCHANGED tmpFile
    /\ UNCHANGED <<clock, rateFile, rateFile0, proxyVars, input, limiterVars,
                   url, strategy, browser, recordVars>>

\* _download_pdf_text, lines 216-220: extract_text, with the unlink in finally
ExtractDownloaded(p) ==
    /\ pc[p] = "tmp_extract"
    /\ Logged(p, "pdf.extract")
    /\ tmpFile' = [tmpFile EXCEPT ![p] = FALSE]
    /\ \E outcome \in {"ok", "raise"} :
         IF outcome = "ok" THEN Goto(p, "summarize") ELSE Exit(p, "Exception")
    /\ UNCHANGED <<clock, rateFile, rateFile0, proxyVars, input, limiterVars,
                   url, strategy, browser, recordVars>>

\* _extract_text_from_url, lines 234-235, and _launch_browser
LaunchBrowser(p) ==
    /\ pc[p] = "launch"
    /\ \E proxy \in GetProxyUrl(proxyFile, proxyForce),
          outcome \in {"ok", "launchFails", "setupFails"} :
         IF proxy = "raise"
         THEN Exit(p, "Exception") /\ UNCHANGED <<log, browser>>
         ELSE /\ Logged(p, "browser.launch")
              /\ CASE outcome = "ok" ->
                        /\ browser' = [browser EXCEPT ![p] = "open"]
                        /\ Goto(p, "goto")
                   [] outcome = "launchFails" ->
                        Exit(p, "Exception") /\ UNCHANGED browser
                   [] OTHER ->
                        /\ browser' = [browser EXCEPT ![p] = PlaywrightExit("open")]
                        /\ Exit(p, "Exception")
    /\ UNCHANGED <<clock, rateFile, rateFile0, proxyVars, input, limiterVars,
                   url, strategy, tmpFile, recordVars>>

\* _extract_text_from_url, line 237
PageGoto(p) ==
    /\ pc[p] = "goto"
    /\ Logged(p, "page.goto")
    /\ \E outcome \in GotoOutcomes(url[p]) :
         IF outcome = "ok"
         THEN Goto(p, "cloudflare") /\ UNCHANGED browser
         ELSE /\ browser' = [browser EXCEPT ![p] = PlaywrightExit(@)]
              /\ Exit(p, "Exception")
    /\ UNCHANGED <<clock, rateFile, rateFile0, proxyVars, input, limiterVars,
                   url, strategy, tmpFile, recordVars>>

\* _wait_for_cloudflare: the challenge clears, or the 30 s budget runs out, and
\* the caller goes on either way; or a page call raises
WaitForCloudflare(p) ==
    /\ pc[p] = "cloudflare"
    /\ \E outcome \in {"clear", "budget", "raise"} :
         IF outcome # "raise"
         THEN Goto(p, "evaluate") /\ UNCHANGED browser
         ELSE /\ browser' = [browser EXCEPT ![p] = PlaywrightExit(@)]
              /\ Exit(p, "Exception")
    /\ UNCHANGED <<clock, rateFile, rateFile0, proxyVars, input, limiterVars,
                   url, strategy, tmpFile, recordVars, log>>

\* _extract_text_from_url, lines 241-251: title and text, browser.close(),
\* and the end of the with block
PageEvaluate(p) ==
    /\ pc[p] = "evaluate"
    /\ \E outcome \in {"ok", "raise"} :
         IF outcome = "ok"
         THEN /\ browser' = [browser EXCEPT ![p] = PlaywrightExit("closed")]
              /\ Goto(p, "summarize")
         ELSE /\ browser' = [browser EXCEPT ![p] = PlaywrightExit(@)]
              /\ Exit(p, "Exception")
    /\ UNCHANGED <<clock, rateFile, rateFile0, proxyVars, input, limiterVars,
                   url, strategy, tmpFile, recordVars, log>>

\* summarize_content
SummarizeContent(p) ==
    /\ pc[p] = "summarize"
    /\ \E proxy \in GetProxyUrl(proxyFile, proxyForce),
          outcome \in {"ok", "429", "httpError", "noSummary", "raise"} :
         IF proxy = "raise"
         THEN Exit(p, "Exception") /\ UNCHANGED log
         ELSE /\ Logged(p, "api.post")
              /\ CASE outcome = "ok"        -> Goto(p, "record")
                   [] outcome = "429"       -> Exit(p, "ApiRateLimited")
                   [] outcome = "httpError" -> Exit(p, "ApiError")
                   [] outcome = "noSummary" -> Exit(p, "NoSummary")
                   [] OTHER                 -> Exit(p, "Exception")
    /\ UNCHANGED <<clock, rateFile, rateFile0, proxyVars, input, limiterVars,
                   fetchVars, recordVars>>

\* record_request, lines 77-88: read the clock and the file, prune, append
RecordRequestRead(p) ==
    /\ pc[p] = "record"
    /\ LET loaded == LoadHistory(rateFile)
       IN  IF loaded.raise
           THEN Exit(p, "Exception") /\ UNCHANGED recordVars
           ELSE /\ recNow' = [recNow EXCEPT ![p] = clock]
                /\ recRaw' = [recRaw EXCEPT ![p] = loaded.ts]
                /\ recTimestamps' =
                     [recTimestamps EXCEPT ![p] = RecordedEntries(loaded.ts, clock)]
                /\ Goto(p, "record_write")
    /\ UNCHANGED <<clock, rateFile, rateFile0, proxyVars, input, limiterVars,
                   fetchVars, log>>

\* record_request, line 89
RecordRequestWrite(p) ==
    /\ pc[p] = "record_write"
    /\ rateFile' = WrittenHistory(rateFile, recTimestamps[p], recNow[p])
    /\ Logged(p, "history.write")
    /\ Goto(p, "output")
    /\ UNCHANGED <<clock, rateFile0, proxyVars, input, limiterVars, fetchVars,
                   recordVars>>

\* main, lines 413-426: render and write the output file
WriteOutput(p) ==
    /\ pc[p] = "output"
    /\ Logged(p, "output.write")
    /\ \E outcome \in {"ok", "raise"} :
         IF outcome = "ok" THEN Exit(p, "ok") ELSE Exit(p, "Exception")
    /\ UNCHANGED <<clock, rateFile, rateFile0, proxyVars, input, limiterVars,
                   fetchVars, recordVars>>

Next ==
    \/ Tick
    \/ \E p \in Procs :
         \/ CheckRateLimitRead(p)
         \/ CheckRateLimitSleep(p)
         \/ CheckRateLimitQuota(p)
         \/ Classify(p)
         \/ ExtractTextFromPdf(p)
         \/ ExtractTextFromUrl(p)
         \/ DownloadPdf(p)
         \/ ExtractDownloaded(p)
         \/ LaunchBrowser(p)
         \/ PageGoto(p)
         \/ WaitForCloudflare(p)
         \/ PageEvaluate(p)
         \/ SummarizeContent(p)
         \/ RecordRequestRead(p)
         \/ RecordRequestWrite(p)
         \/ WriteOutput(p)

Spec == Init /\ [][Next]_vars

----------------------------------------------------------------------------
(* Two invocations launched independently on the same history file         *)

LocalPdf == [str |-> <<"paper.pdf">>, onDisk |-> "small"]

HistoriesRace ==
    {ListFile(Rep(Now0 - (WINDOW - 1), a) \o Rep(Now0 - MIN_INTERVAL_SECONDS, b)) :
        <<a, b>> \in (0..MaxOld) \X {0, 1, MAX_REQUESTS_PER_HOUR - 1}}

InitRace ==
    InitWith(HistoriesRace, {LocalPdf}, {LocalPdf}, {NoConfig("missing")},
             {"useConfig"}, <<"start", "start">>)

NextRace ==
    \/ Tick
    \/ \E p \in Procs :
         \/ CheckRateLimitRead(p)
         \/ CheckRateLimitSleep(p)
         \/ CheckRateLimitQuota(p)
         \/ Classify(p)
         \/ ExtractTextFromPdf(p)
         \/ SummarizeContent(p)
         \/ RecordRequestRead(p)
         \/ RecordRequestWrite(p)
         \/ WriteOutput(p)

SpecRace == InitRace /\ [][NextRace]_vars

----------------------------------------------------------------------------
(* _get_proxy_url called again and again while the configuration is edited *)

InitProxy ==
    InitWith({[kind |-> "missing", ts |-> <<>>]}, {NoInput}, {NoInput}, Configs,
             Overrides, <<"idle", "idle">>)

\* one call of _get_proxy_url
CallGetProxyUrl ==
    /\ proxyCalls < MaxCalls
    /\ \E r \in GetProxyUrl(proxyFile, proxyForce) : proxyResult' = r
    /\ proxyCalls' = proxyCalls + 1
    /\ UNCHANGED <<clock, rateFile, rateFile0, proxyFile, proxyForce, input, pc,
                   status, limiterVars, fetchVars, recordVars, log>>

\* the user edits ~/.scholar-proxies.json between two calls
EditProxyConfig ==
    /\ \E c \in Configs \ {proxyFile} : proxyFile' = c
    /\ UNCHANGED <<clock, rateFile, rateFile0, proxyForce, proxyResult, proxyCalls,
                   input, pc, status, limiterVars, fetchVars, recordVars, log>>

NextProxy == CallGetProxyUrl \/ EditProxyConfig

SpecProxy == InitProxy /\ [][NextProxy]_vars

----------------------------------------------------------------------------
(* Vocabulary of the properties                                            *)

Entries(file) == IF file.kind = "list" THEN file.ts ELSE <<>>

Elems(s) == {s[i] : i \in 1..Len(s)}

Has(p, event) == event \in Elems(log[p])

\* positions of ts whose entry is less than limit seconds old at time t
YoungerThan(ts, t, limit) == {i \in 1..Len(ts) : t - ts[i] < limit}

\* kept consists of the entries of ts at the positions in keep, in their order
IsSelection(kept, ts, keep) ==
    /\ Len(kept) = Cardinality(keep)
    /\ \A i \in keep : kept[Cardinality({j \in keep : j <= i})] = ts[i]

InWindowCount(file, t) == Cardinality(YoungerThan(Entries(file), t, WINDOW))

Newest(file, t) ==
    LET W == {Entries(file)[i] : i \in YoungerThan(Entries(file), t, WINDOW)}
    IN  CHOOSE m \in W : \A x \in W : x <= m

CheckReturned(p) == pc[p] = "classify"

CheckEnded(p) == pc[p] \notin {"idle", "start", "sleep", "quota"}

----------------------------------------------------------------------------
(* C1: check_rate_limit ends the run with the rate-limit failure exactly    *)
(* when at least MAX_REQUESTS_PER_HOUR entries of the history are less than *)
(* WINDOW seconds old at the time of the call; with fewer it never does,    *)
(* whatever the age of the newest entry.                                    *)
C1_QuotaIff ==
    \A p \in Procs :
        CheckEnded(p) =>
            (status[p] = "RateLimitExceeded"
                <=> InWindowCount(rateFile0, now[p]) >= MAX_REQUESTS_PER_HOUR)

C1_Witness ==
    /\ status[1] = "RateLimitExceeded"
    /\ InWindowCount(rateFile0, now[1]) = MAX_REQUESTS_PER_HOUR
    /\ Len(Entries(rateFile0)) > MAX_REQUESTS_PER_HOUR

(* C2: when the quota is reached the run fails without any spacing wait:    *)
(* no time.sleep precedes the rate-limit failure.                           *)
C2_FailFastWithoutWait ==
    \A p \in Procs :
        status[p] = "RateLimitExceeded" => blockedFor[p] = 0 /\ ~Has(p, "sleep")

(* C3: when check_rate_limit returns, it has slept at least                 *)
(* MIN_INTERVAL_SECONDS - elapsed seconds if the newest in-window entry was *)
(* elapsed < MIN_INTERVAL_SECONDS old at the call, and it has not slept at  *)
(* all if the history is empty or that entry is older.                      *)
C3_SpacingWait ==
    \A p \in Procs :
        CheckReturned(p) =>
            IF /\ InWindowCount(rateFile0, now[p]) > 0
               /\ now[p] - Newest(rateFile0, now[p]) < MIN_INTERVAL_SECONDS
            THEN /\ Has(p, "sleep")
                 /\ blockedFor[p] >=
                        MIN_INTERVAL_SECONDS - (now[p] - Newest(rateFile0, now[p]))
            ELSE blockedFor[p] = 0 /\ ~Has(p, "sleep")

C3_Witness ==
    /\ CheckReturned(1)
    /\ Has(1, "sleep")
    /\ blockedFor[1] = 1
    /\ Len(Entries(rateFile0)) >= 2

\* what both pruning sites computed, against the entries less than limit old
PrunedBy(limit) ==
    \A p \in Procs :
        /\ pc[p] \in {"sleep", "quota"} =>
             IsSelection(timestamps[p], Entries(rateFile0),
                         YoungerThan(Entries(rateFile0), now[p], limit))
        /\ pc[p] = "record_write" =>
             /\ Len(recTimestamps[p]) >= 1
             /\ recTimestamps[p][Len(recTimestamps[p])] = recNow[p]
             /\ IsSelection(SubSeq(recTimestamps[p], 1, Len(recTimestamps[p]) - 1),
                            recRaw[p], YoungerThan(recRaw[p], recNow[p], limit))

(* C4 as stated: pruning removes exactly the entries strictly older than    *)
(* WINDOW seconds, so an entry exactly WINDOW seconds old is kept; the      *)
(* surviving entries keep their order.                                      *)
C4_PruneStrictlyOlder == PrunedBy(WINDOW + 1)

(* C4 as amended: pruning in check_rate_limit and in record_request removes *)
(* exactly the entries that are WINDOW seconds old or older (an entry       *)
(* exactly WINDOW seconds old is removed) and no newer one; the surviving   *)
(* entries keep their order.                                                *)
C4_PruneWindowOrOlder == PrunedBy(WINDOW)

C4_Witness ==
    /\ pc[1] = "quota"
    /\ \E i \in 1..Len(Entries(rateFile0)) : now[1] - Entries(rateFile0)[i] = WINDOW
    /\ timestamps[1] # <<>>
    /\ Len(timestamps[1]) < Len(Entries(rateFile0))

\* the history file holds the initial entries less than WINDOW old at the
\* time of recording, in order, followed by that time
OneEntryAdded(p) ==
    /\ rateFile.kind = "list"
    /\ Len(rateFile.ts) = InWindowCount(rateFile0, recNow[p]) + 1
    /\ rateFile.ts[Len(rateFile.ts)] = recNow[p]
    /\ IsSelection(SubSeq(rateFile.ts, 1, Len(rateFile.ts) - 1), Entries(rateFile0),
                   YoungerThan(Entries(rateFile0), recNow[p], WINDOW))

(* C5 as stated: a run that completes successfully adds exactly one entry,  *)
(* the current time, to the history; a run that aborts with any fatal       *)
(* condition, failure to persist the output included, leaves the history    *)
(* file unchanged.                                                          *)
C5_RecordedOnlyAfterOverallSuccess ==
    \A p \in Procs :
        pc[p] = "exit" =>
            IF status[p] = "ok" THEN OneEntryAdded(p) ELSE rateFile = rateFile0

(* C5 as amended: the entry is appended once the summary has been obtained. *)
(* A run that completes successfully adds exactly one entry, the current    *)
(* time; a run that aborts before that point (quota, fetch, input, service  *)
(* or summary failure) leaves the history file unchanged; a run that aborts *)
(* while persisting the output has already added its entry, which stays.    *)
C5_RecordedAfterSummary ==
    \A p \in Procs :
        /\ pc[p] \notin {"idle", "output", "exit"} => rateFile = rateFile0
        /\ pc[p] \in {"output", "exit"} =>
             IF status[p] = "ok" \/ Has(p, "history.write")
             THEN OneEntryAdded(p)
             ELSE rateFile = rateFile0

C5_Witness ==
    /\ pc[1] = "exit"
    /\ status[1] = "ok"
    /\ Len(Entries(rateFile0)) >= 2
    /\ Len(rateFile.ts) <= Len(Entries(rateFile0))

\* the outcome the claim allows for one call on configuration file and
\* override force
EndpointContract(file, force, r) ==
    LET disabled ==
            \/ force = "forceOff"
            \/ force = "useConfig" /\ (file.kind # "object" \/ file.enabled # "true")
            \/ file.kind # "object"
            \/ file.proxies = {}
    IN  IF disabled THEN r = "none" ELSE r \in file.proxies

(* C6: every call of _get_proxy_url answers from the override and the       *)
(* configuration as they are at that call: none if the override is forceOff,*)
(* or it is useConfig and the configuration is disabled, missing or         *)
(* malformed, or the proxy set is empty; otherwise one of the configured    *)
(* proxies.                                                                 *)
C6_SelectEndpoint ==
    [][proxyCalls' # proxyCalls => EndpointContract(proxyFile, proxyForce, proxyResult')]_vars

\* the landing-page patterns arxiv.org/abs/<id> and arxiv.org/html/<id>
LandingPage(s) ==
    /\ Len(s) >= 4
    /\ s[1] \in {"http://", "https://"}
    /\ s[2] = "arxiv.org"
    /\ s[3] \in {"/abs/", "/html/"}

\* <id>: what follows the view, without the query string
LandingId(s) ==
    LET q == {i \in 5..Len(s) : s[i] = "?"}
        stop == IF q = {} THEN Len(s) + 1 ELSE CHOOSE i \in q : \A j \in q : i <= j
    IN  SubSeq(s, 4, stop - 1)

Schemed(s) == s # <<>> /\ s[1] \in {"http://", "https://"}

\* the process is past the choice made in _extract_text_from_url
Dispatched(p) ==
    pc[p] \in {"download", "tmp_extract", "launch", "goto", "cloudflare", "evaluate",
               "summarize", "record", "record_write", "output"}

(* C7: each invocation enters one extraction strategy, fixed by             *)
(* classification and rewriting: a path without scheme that exists goes to  *)
(* _extract_text_from_pdf; an input with a scheme is never probed on disk;  *)
(* an arXiv abs/html URL is rewritten to https://arxiv.org/pdf/<id> before  *)
(* any fetch and downloaded, never opened in the browser; any other URL is  *)
(* left unchanged and opened in the browser.                                *)
C7_Dispatch ==
    \A p \in Procs :
        LET s == input[p].str
        IN  /\ Schemed(s) => ~Has(p, "fs.exists")
            /\ pc[p] = "download" => ~Has(p, "http.get")
            /\ ~(Has(p, "browser.launch") /\ (Has(p, "http.get") \/ Has(p, "pdf.extract")))
            /\ Has(p, "fs.exists") /\ input[p].onDisk # "absent" /\ pc[p] # "pdf_path"
                 => strategy[p] = "fromPath"
            /\ strategy[p] = "fromPath" => ~Has(p, "http.get") /\ ~Has(p, "browser.launch")
            /\ Schemed(s) /\ (Dispatched(p) \/ strategy[p] # "none")
                 => IF LandingPage(s)
                    THEN /\ strategy[p] = "fromUrl"
                         /\ url[p] = <<"https://", "arxiv.org", "/pdf/">> \o LandingId(s)
                         /\ browser[p] = "none" /\ ~Has(p, "browser.launch")
                    ELSE /\ strategy[p] = "browser"
                         /\ url[p] = s
                         /\ ~Has(p, "http.get")

C7_Witness ==
    /\ pc[1] = "exit"
    /\ strategy[1] = "fromUrl"
    /\ input[1].str[3] = "/html/"
    /\ Has(1, "http.get") /\ Has(1, "pdf.extract")

(* C8: a path without scheme that does not exist on disk fails with "File   *)
(* not found" before any extraction: no PDF extraction, no browser, no      *)
(* network fetch.                                                           *)
C8_NotFoundBeforeExtraction ==
    \A p \in Procs :
        ~Schemed(input[p].str) /\ input[p].onDisk = "absent" /\ pc[p] # "idle" =>
            /\ strategy[p] = "none"
            /\ ~Has(p, "browser.launch") /\ ~Has(p, "http.get") /\ ~Has(p, "pdf.extract")
            /\ Has(p, "fs.exists") /\ pc[p] = "exit" => status[p] = "FileNotFound"

Recorded(p) == Has(p, "history.write")

(* C10: the history update is a read-modify-write without locking.  When    *)
(* two processes have both passed check_rate_limit and both read the same   *)
(* history in record_request before either wrote, the later write replaces  *)
(* the earlier one: the file ends as the later writer's list, with one new  *)
(* entry instead of two.                                                    *)
C10_LastWriterWins ==
    \A p, q \in Procs :
        (p # q /\ Recorded(p) /\ Recorded(q) /\ recRaw[p] = recRaw[q]) =>
            /\ rateFile.ts \in {recTimestamps[p], recTimestamps[q]}
            /\ Len(rateFile.ts) <= Len(recRaw[p]) + 1

C10_Witness ==
    /\ status[1] = "ok" /\ status[2] = "ok"
    /\ recRaw[1] = Entries(rateFile0) /\ recRaw[2] = Entries(rateFile0)
    /\ recNow[1] < recNow[2]
    /\ rateFile.ts = recTimestamps[1]
    /\ recNow[2] \notin Elems(rateFile.ts)
    /\ Len(rateFile.ts) = MAX_REQUESTS_PER_HOUR

====
